---- MODULE Spec2Model ----
(***************************************************************************)
(* Model of peripheral_parser.py: the configparser object that applies     *)
(* defaults to a decoded yaml tree, validates it with five validators,     *)
(* and then prints a summary, stops, or writes the generated c file.       *)
(***************************************************************************)
EXTENDS Integers, Sequences, FiniteSets, TLC

VARIABLES
  config,     \* self.config, the decoded tree (mutated only by _apply_defaults)
  errors,     \* self.errors
  diag,       \* the "applied default" lines printed by _apply_defaults
  pc,         \* position of the run in load_and_validate / __main__
  reported,   \* the error lines printed before sys.exit(1)
  file,       \* the output file: [exists, closed, lines]
  exitCode,   \* process exit status, -1 while running
  calls       \* number of _apply_defaults calls made so far

vars == <<config, errors, diag, pc, reported, file, exitCode, calls>>

(***************************************************************************)
(* Scalars of the decoded tree. A dict key that is missing is Absent.      *)
(* A python bool is an int: BoolV(TRUE) has the numeric value 1.            *)
(***************************************************************************)
Absent == [t |-> "absent", s |-> "", n |-> 0]
Null == [t |-> "null", s |-> "", n |-> 0]
StrV(x) == [t |-> "str", s |-> x, n |-> 0]
IntV(k) == [t |-> "int", s |-> "", n |-> k]
BoolV(b) == [t |-> "bool", s |-> "", n |-> IF b THEN 1 ELSE 0]

\* python truth value of a scalar
Truthy(v) ==
  CASE v.t = "str" -> v.s # ""
    [] v.t = "int" -> v.n # 0
    [] v.t = "bool" -> v.n # 0
    [] OTHER -> FALSE

\* isinstance(v, int): true of bools as well
IsInstanceInt(v) == v.t \in {"int", "bool"}
IsInstanceBool(v) == v.t = "bool"
IsInstanceStr(v) == v.t = "str"

\* key in d
Has(d, k) == d[k] # Absent
\* d.get(k)
Get(d, k) == IF d[k] = Absent THEN Null ELSE d[k]
\* d.get(k, dflt)
GetOr(d, k, dflt) == IF d[k] = Absent THEN dflt ELSE d[k]

\* f"{v}"
Fmt(v) ==
  CASE v.t = "str" -> v.s
    [] v.t = "int" -> ToString(v.n)
    [] v.t = "bool" -> (IF v.n = 1 THEN "True" ELSE "False")
    [] OTHER -> "None"

valid_directions == {"input", "output", "output_open_drain"}
valid_pulls == {"none", "pull_up", "pull_down"}
valid_speeds == {"low", "medium", "high", "very_high"}

\* v in <set of strings>
InStrSet(v, S) == v.t = "str" /\ v.s \in S

pull_map(p) ==
  CASE p = "none" -> "GPIO_NOPULL"
    [] p = "pull_up" -> "GPIO_PULLUP"
    [] p = "pull_down" -> "GPIO_PULLDOWN"

speed_map(s) ==
  CASE s = "low" -> "GPIO_SPEED_FREQ_LOW"
    [] s = "medium" -> "GPIO_SPEED_FREQ_MEDIUM"
    [] s = "high" -> "GPIO_SPEED_FREQ_HIGH"
    [] s = "very_high" -> "GPIO_SPEED_FREQ_VERY_HIGH"

\* the defaults table, per category, in dict order
defaults(cat) ==
  CASE cat = "gpio" -> << <<"pull", StrV("none")>>, <<"speed", StrV("medium")>>,
                          <<"direction", StrV("input")>> >>
    [] cat = "uart" -> << <<"parity", StrV("none")>>, <<"stop_bits", IntV(1)>>,
                          <<"data_bits", IntV(8)>>, <<"enabled", BoolV(TRUE)>> >>
    [] cat = "i2c" -> << <<"speed", IntV(100000)>>, <<"enabled", BoolV(TRUE)>> >>
    [] cat = "timers" -> << <<"enabled", BoolV(TRUE)>>, <<"mode", StrV("timer")>> >>

(***************************************************************************)
(* The tree. A mapping with optional keys is a record whose missing keys   *)
(* hold Absent; a section that is missing is left out of `keys`.           *)
(***************************************************************************)
Sections == <<"board", "gpio", "communication", "timers">>

EmptyBoard == [name |-> Absent, mcu |-> Absent, clock_freq |-> Absent]
EmptyGpio == [keys |-> {}, pins |-> <<>>]
EmptyComm == [keys |-> {}, uart |-> <<>>, i2c |-> <<>>]

\* self.config.get("board", {})
BoardOf(c) == IF "board" \in c.keys THEN c.board ELSE EmptyBoard
\* self.config.get("gpio", {}).get("pins", [])
PinsOf(c) ==
  IF "gpio" \in c.keys /\ "pins" \in c.gpio.keys THEN c.gpio.pins ELSE <<>>
\* self.config.get("communication", {}).get("uart", [])
UartsOf(c) ==
  IF "communication" \in c.keys /\ "uart" \in c.communication.keys
  THEN c.communication.uart ELSE <<>>
\* self.config.get("communication", {}).get("i2c", [])
I2csOf(c) ==
  IF "communication" \in c.keys /\ "i2c" \in c.communication.keys
  THEN c.communication.i2c ELSE <<>>
\* self.config.get("timers", [])
TimersOf(c) == IF "timers" \in c.keys THEN c.timers ELSE <<>>

(***************************************************************************)
(* _apply_defaults                                                         *)
(***************************************************************************)
\* the test left out: every default is assigned, present field or not
NeedsDefault_always(ent, key) == TRUE

\* `if key not in pin` (and the same test for uart, i2c, timer)
NeedsDefault(ent, key) == ~Has(ent, key)

\* the inner loop over defaults[cat].items() for one entity; `label` is the
\* text before the entity's name in the printed line, idKey/idDflt the
\* arguments of the .get that names the entity
RECURSIVE FillEntity(_, _, _, _, _, _)
FillEntity(ent, table, i, label, idKey, idDflt) ==
  IF i > Len(table) THEN [ent |-> ent, out |-> <<>>]
  ELSE LET key == table[i][1]
           default_val == table[i][2]
       IN IF NeedsDefault(ent, key)
          THEN LET filled == [ent EXCEPT ![key] = default_val]
                   line == "  applied default " \o key \o "='" \o Fmt(default_val)
                           \o "' to " \o label \o Fmt(GetOr(filled, idKey, StrV(idDflt)))
                   rest == FillEntity(filled, table, i + 1, label, idKey, idDflt)
               IN [ent |-> rest.ent, out |-> <<line>> \o rest.out]
          ELSE FillEntity(ent, table, i + 1, label, idKey, idDflt)

\* the outer loop over one category's entity list
RECURSIVE FillList(_, _, _, _, _)
FillList(list, cat, label, idKey, idDflt) ==
  IF list = <<>> THEN [list |-> <<>>, out |-> <<>>]
  ELSE LET h == FillEntity(Head(list), defaults(cat), 1, label, idKey, idDflt)
           r == FillList(Tail(list), cat, label, idKey, idDflt)
       IN [list |-> <<h.ent>> \o r.list, out |-> h.out \o r.out]

\* _apply_defaults as a function of the tree: the new tree and the lines printed
apply_defaults(c) ==
  LET g == FillList(PinsOf(c), "gpio", "pin ", "pin", "unknown")
      u == FillList(UartsOf(c), "uart", "", "instance", "uart")
      i == FillList(I2csOf(c), "i2c", "", "instance", "i2c")
      t == FillList(TimersOf(c), "timers", "", "instance", "timer")
  IN [config |-> [c EXCEPT !.gpio.pins = g.list,
                           !.communication.uart = u.list,
                           !.communication.i2c = i.list,
                           !.timers = t.list],
      out |-> g.out \o u.out \o i.out \o t.out]

(***************************************************************************)
(* The validators, each as the list of messages it appends                 *)
(***************************************************************************)
\* a == b for two scalars (1 == True in python)
PyEq(a, b) ==
  \/ a.t = "str" /\ b.t = "str" /\ a.s = b.s
  \/ IsInstanceInt(a) /\ IsInstanceInt(b) /\ a.n = b.n
  \/ a.t = "null" /\ b.t = "null"

\* name in seen
InSeen(name, seen) == \E x \in seen : PyEq(x, name)

\* `if cond: self.errors.append(msg)`
AppendIf(errs, cond, msg) == IF cond THEN Append(errs, msg) ELSE errs

RECURSIVE StructureLoop(_, _, _)
StructureLoop(c, i, errs) ==
  IF i > Len(Sections) THEN errs
  ELSE StructureLoop(c, i + 1,
         AppendIf(errs, Sections[i] \notin c.keys, "missing section " \o Sections[i]))

\* _validate_structure, appending to errs
validate_structure(c, errs) == StructureLoop(c, 1, errs)

BoardFields == <<"name", "mcu", "clock_freq">>

\* `if field not in board`
BoardFieldMissing(board, field) == ~Has(board, field)

RECURSIVE BoardLoop(_, _, _)
BoardLoop(board, i, errs) ==
  IF i > Len(BoardFields) THEN errs
  ELSE BoardLoop(board, i + 1,
         AppendIf(errs, BoardFieldMissing(board, BoardFields[i]),
                  "board " \o BoardFields[i] \o " required"))

validate_board_section(c, errs) == BoardLoop(BoardOf(c), 1, errs)

\* the name added to seen before the test: every named pin is a duplicate
IsDuplicate_self(name, seen) == InSeen(name, seen \cup {name})

\* `if name in seen` for a pin whose name is truthy
IsDuplicate(name, seen) == InSeen(name, seen)

\* the checks made on a pin that has a name
PinChecks(pin, name, seen, errs) ==
  LET e1 == AppendIf(errs, IsDuplicate(name, seen), "duplicate pin " \o Fmt(name))
      e2 == AppendIf(e1, ~InStrSet(Get(pin, "direction"), valid_directions),
                     Fmt(name) \o " direction must be one of valid_directions")
      e3 == AppendIf(e2, ~InStrSet(Get(pin, "pull"), valid_pulls),
                     Fmt(name) \o " pull must be one of valid_pulls")
      e4 == AppendIf(e3, ~InStrSet(Get(pin, "speed"), valid_speeds),
                     Fmt(name) \o " speed must be one of valid_speeds")
      af == Get(pin, "alt_function")
  IN AppendIf(e4, af # Null /\ ~IsInstanceStr(af),
              Fmt(name) \o " alt_function must be a string (STM32 macro)")

\* the loop over enumerate(pins); idx counts from 0
RECURSIVE GpioLoop(_, _, _, _)
GpioLoop(pins, idx, seen, errs) ==
  IF idx >= Len(pins) THEN errs
  ELSE LET pin == pins[idx + 1]
           name == Get(pin, "pin")
       IN IF ~Truthy(name)
          THEN GpioLoop(pins, idx + 1, seen,
                        Append(errs, "gpio " \o ToString(idx) \o " missing pin"))
          ELSE GpioLoop(pins, idx + 1, seen \cup {name},
                        PinChecks(pin, name, seen, errs))

validate_gpio_section(c, errs) == GpioLoop(PinsOf(c), 0, {}, errs)

\* the enabled guard left out
Enabled_always(ent) == TRUE

\* the truth value of ent.get("enabled")
Enabled(ent) == Truthy(Get(ent, "enabled"))

\* `not isinstance(v, int) or v <= 0`
NotPositiveInt(v) == ~IsInstanceInt(v) \/ v.n <= 0

\* the three checks made on one uart (field = "baudrate") or i2c (field = "speed")
CommChecks(ent, kind, field, errs) ==
  LET inst == Get(ent, "instance")
      e1 == AppendIf(errs, ~Truthy(inst), kind \o " missing instance")
      e2 == AppendIf(e1, ~IsInstanceBool(Get(ent, "enabled")),
                     Fmt(GetOr(ent, "instance", StrV("?"))) \o " " \o kind
                     \o " enabled must be bool")
  IN AppendIf(e2, Enabled(ent) /\ NotPositiveInt(Get(ent, field)),
              (IF Truthy(inst) THEN Fmt(inst) ELSE kind) \o " invalid " \o field)

RECURSIVE CommLoop(_, _, _, _)
CommLoop(list, kind, field, errs) ==
  IF list = <<>> THEN errs
  ELSE CommLoop(Tail(list), kind, field, CommChecks(Head(list), kind, field, errs))

validate_communication_section(c, errs) ==
  CommLoop(I2csOf(c), "i2c", "speed", CommLoop(UartsOf(c), "uart", "baudrate", errs))

\* the pwm check made outside `if t.get("enabled")`
PwmChecked_anyEnabled(t) == Get(t, "mode") = StrV("pwm")

\* the condition under which the pwm check of a timer is made
PwmChecked(t) == Enabled(t) /\ Get(t, "mode") = StrV("pwm")

TimerChecks(t, errs) ==
  LET inst == Get(t, "instance")
      e1 == AppendIf(errs, ~Truthy(inst), "timer missing instance")
      e2 == AppendIf(e1, ~IsInstanceBool(Get(t, "enabled")),
                     Fmt(GetOr(t, "instance", StrV("?"))) \o " timer enabled must be bool")
      on == Enabled(t)
      e3 == AppendIf(e2, on /\ NotPositiveInt(Get(t, "prescaler")),
                     Fmt(inst) \o " invalid prescaler")
      e4 == AppendIf(e3, on /\ NotPositiveInt(Get(t, "period")),
                     Fmt(inst) \o " invalid period")
  IN AppendIf(e4, PwmChecked(t) /\ (~Has(t, "duty_cycle") \/ ~Has(t, "channel")),
              Fmt(inst) \o " pwm needs duty_cycle and channel")

RECURSIVE TimerLoop(_, _)
TimerLoop(list, errs) ==
  IF list = <<>> THEN errs
  ELSE TimerLoop(Tail(list), TimerChecks(Head(list), errs))

validate_timers_section(c, errs) == TimerLoop(TimersOf(c), errs)

(***************************************************************************)
(* The code emitter. A writer is the text written so far and whether the   *)
(* routine is still running (ok) or has raised.                            *)
(***************************************************************************)
W(text) == [ok |-> TRUE, text |-> text]
Raises == [ok |-> FALSE, text |-> ""]

\* the statements of a routine in order: each writes its text, or raises
RECURSIVE WriteOps(_, _)
WriteOps(w, ops) ==
  IF ~w.ok \/ ops = <<>> THEN w
  ELSE IF Head(ops).ok
       THEN WriteOps([w EXCEPT !.lines = Append(@, Head(ops).text)], Tail(ops))
       ELSE [w EXCEPT !.ok = FALSE]

UpperCase == "ABCDEFGHIJKLMNOPQRSTUVWXYZ"
LowerCase == "abcdefghijklmnopqrstuvwxyz"

\* str.lower()
RECURSIVE Lower(_)
Lower(s) ==
  IF s = "" THEN ""
  ELSE LET ch == SubSeq(s, 1, 1)
           hit == {i \in 1..26 : SubSeq(UpperCase, i, i) = ch}
           lo == IF hit = {} THEN ch
                 ELSE LET i == CHOOSE i \in hit : TRUE IN SubSeq(LowerCase, i, i)
       IN lo \o Lower(SubSeq(s, 2, Len(s)))

\* str.startswith(key)
StartsWith(s, key) == Len(s) >= Len(key) /\ SubSeq(s, 1, Len(key)) = key

prefix_map == << <<"usart", "huart">>, <<"i2c", "hi2c">>, <<"tim", "htim">>,
                 <<"timers", "htim">> >>

RECURSIVE PrefixLoop(_, _, _)
PrefixLoop(prefix, lower, i) ==
  IF i > Len(prefix_map) THEN prefix \o lower
  ELSE IF StartsWith(lower, prefix_map[i][1])
       THEN prefix_map[i][2] \o SubSeq(lower, Len(prefix_map[i][1]) + 1, Len(lower))
       ELSE PrefixLoop(prefix, lower, i + 1)

\* handle_var_name, for an instance that is a string
handle_var_name(prefix, instance) == PrefixLoop(prefix, Lower(instance), 1)

\* the statements of one iteration of the loop of _write_gpio_c
PinOps(pin, seen_ports) ==
  LET id == pin["pin"]
      subscriptable == IsInstanceStr(id) /\ Len(id.s) >= 2
      port == SubSeq(id.s, 2, 2)
      num == SubSeq(id.s, 3, Len(id.s))
      dir == pin["direction"]
      pull == pin["pull"]
      speed == pin["speed"]
  IN IF ~subscriptable THEN <<Raises>>
     ELSE (IF port \notin seen_ports
           THEN <<W("    __HAL_RCC_GPIO" \o port \o "_CLK_ENABLE();\n")>> ELSE <<>>)
       \o <<W("    /* " \o id.s \o ": " \o Fmt(GetOr(pin, "comment", StrV(""))) \o " */\n"),
            W("    GpioStruct.Pin = GPIO_PIN_" \o num \o ";\n")>>
       \o (IF Has(pin, "alt_function")
           THEN <<W("    GpioStruct.Mode = GPIO_MODE_AF_PP;\n"),
                  W("    GpioStruct.Alternate = " \o Fmt(Get(pin, "alt_function")) \o ";\n")>>
           ELSE IF ~Has(pin, "direction") THEN <<Raises>>
           ELSE IF dir = StrV("input") THEN <<W("    GpioStruct.Mode = GPIO_MODE_INPUT;\n")>>
           ELSE IF dir = StrV("output_open_drain")
                THEN <<W("    GpioStruct.Mode = GPIO_MODE_OUTPUT_OD;\n")>>
           ELSE <<W("    GpioStruct.Mode = GPIO_MODE_OUTPUT_PP;\n")>>)
       \o <<IF InStrSet(pull, valid_pulls)
            THEN W("    GpioStruct.Pull = " \o pull_map(pull.s) \o ";\n") ELSE Raises,
            IF InStrSet(speed, valid_speeds)
            THEN W("    GpioStruct.Speed = " \o speed_map(speed.s) \o ";\n") ELSE Raises,
            W("    HAL_GPIO_Init(GPIO" \o port \o ", &GpioStruct);\n\n")>>

RECURSIVE GpioWriteLoop(_, _, _)
GpioWriteLoop(w, pins, seen_ports) ==
  IF ~w.ok \/ pins = <<>> THEN w
  ELSE LET id == Head(pins)["pin"]
           ports == IF IsInstanceStr(id) /\ Len(id.s) >= 2
                    THEN seen_ports \cup {SubSeq(id.s, 2, 2)} ELSE seen_ports
       IN GpioWriteLoop(WriteOps(w, PinOps(Head(pins), seen_ports)), Tail(pins), ports)

\* _write_gpio_c; self.config["gpio"]["pins"] raises when either key is missing
write_gpio_c(w, c) ==
  LET w1 == WriteOps(w, <<W("static void init_gpio(void) {\n"),
                          W("    GPIO_InitTypeDef GpioStruct = {0};\n\n")>>)
      w2 == IF "gpio" \in c.keys /\ "pins" \in c.gpio.keys
            THEN GpioWriteLoop(w1, c.gpio.pins, {})
            ELSE WriteOps(w1, <<Raises>>)
  IN WriteOps(w2, <<W("}\n\n")>>)

parity_map(p) ==
  CASE p = "none" -> "UART_PARITY_NONE"
    [] p = "even" -> "UART_PARITY_EVEN"
    [] p = "odd" -> "UART_PARITY_ODD"

valid_parities == {"none", "even", "odd"}

UartOps(uart) ==
  LET inst == uart["instance"]
      hname == handle_var_name("hu", inst.s)
      parity == GetOr(uart, "parity", StrV("none"))
  IN IF ~IsInstanceStr(inst) THEN <<Raises>>
     ELSE <<W("UART_HandleTypeDef " \o hname \o ";\n"),
            W("void init_" \o inst.s \o "(void) {\n"),
            W("    " \o hname \o ".Instance = " \o inst.s \o ";\n"),
            IF Has(uart, "baudrate")
            THEN W("    " \o hname \o ".Init.BaudRate = " \o Fmt(uart["baudrate"]) \o ";\n")
            ELSE Raises,
            W("    " \o hname \o ".Init.WordLength = UART_WORDLENGTH_8B;\n"),
            IF InStrSet(parity, valid_parities)
            THEN W("    " \o hname \o ".Init.Parity = " \o parity_map(parity.s) \o ";\n")
            ELSE Raises,
            IF Has(uart, "stop_bits")
            THEN W("    " \o hname \o ".Init.StopBits = UART_STOPBITS_"
                   \o Fmt(uart["stop_bits"]) \o ";\n")
            ELSE Raises,
            W("    " \o hname \o ".Init.Mode = UART_MODE_TX_RX;\n"),
            W("    " \o hname \o ".Init.HwFlowCtl = UART_HWCONTROL_NONE;\n"),
            W("    " \o hname \o ".Init.OverSampling = UART_OVERSAMPLING_16;\n"),
            W("    if (HAL_UART_Init(&" \o hname
              \o ") != HAL_OK) {\n        Error_Handler();\n    }\n"),
            W("}\n\n")>>

I2cOps(i2c) ==
  LET inst == i2c["instance"]
      hname == handle_var_name("hi", inst.s)
  IN IF ~IsInstanceStr(inst) THEN <<Raises>>
     ELSE <<W("I2C_HandleTypeDef " \o hname \o ";\n"),
            W("void init_" \o inst.s \o "(void) {\n"),
            W("    " \o hname \o ".Instance = " \o inst.s \o ";\n"),
            IF Has(i2c, "speed")
            THEN W("    " \o hname \o ".Init.ClockSpeed = " \o Fmt(i2c["speed"]) \o ";\n")
            ELSE Raises,
            W("    " \o hname \o ".Init.DutyCycle = I2C_DUTYCYCLE_2;\n"),
            W("    " \o hname \o ".Init.OwnAddress1 = 0;\n"),
            W("    " \o hname \o ".Init.AddressingMode = I2C_ADDRESSINGMODE_7BIT;\n"),
            W("    " \o hname \o ".Init.DualAddressMode = I2C_DUALADDRESS_DISABLE;\n"),
            W("    " \o hname \o ".Init.OwnAddress2 = 0;\n"),
            W("    " \o hname \o ".Init.GeneralCallMode = I2C_GENERALCALL_DISABLE;\n"),
            W("    " \o hname \o ".Init.NoStretchMode = I2C_NOSTRETCH_DISABLE;\n"),
            W("    if (HAL_I2C_Init(&" \o hname
              \o ") != HAL_OK) {\n        Error_Handler();\n    }\n"),
            W("}\n\n")>>

\* f"{timer[key] - 1}": raises unless the value is there and is a number
MinusOne(timer, key, pre, post) ==
  IF Has(timer, key) /\ IsInstanceInt(timer[key])
  THEN W(pre \o ToString(timer[key].n - 1) \o post) ELSE Raises

TimerOps(timer) ==
  LET inst == timer["instance"]
      hname == handle_var_name("ht", inst.s)
  IN IF ~IsInstanceStr(inst) THEN <<Raises>>
     ELSE <<W("TIM_HandleTypeDef " \o hname \o ";\n"),
            W("void init_" \o inst.s \o "(void) {\n"),
            W("    " \o hname \o ".Instance = " \o inst.s \o ";\n"),
            MinusOne(timer, "prescaler", "    " \o hname \o ".Init.Prescaler = ", ";\n"),
            W("    " \o hname \o ".Init.CounterMode = TIM_COUNTERMODE_UP;\n"),
            MinusOne(timer, "period", "    " \o hname \o ".Init.Period = ", ";\n"),
            W("    " \o hname \o ".Init.ClockDivision = TIM_CLOCKDIVISION_DIV1;\n"),
            W("    if (HAL_TIM_Base_Init(&" \o hname
              \o ") != HAL_OK) {\n        Error_Handler();\n    }\n")>>
       \o (IF Get(timer, "mode") = StrV("pwm")
           THEN <<IF Has(timer, "channel") /\ Has(timer, "duty_cycle")
                  THEN W("    // pwm out ch " \o Fmt(timer["channel"]) \o " duty "
                         \o Fmt(timer["duty_cycle"]) \o "%\n")
                  ELSE Raises>>
           ELSE <<>>)
       \o <<W("}\n\n")>>

\* the loop of _write_uart_c / _write_i2c_c / _write_timer_c over one list
RECURSIVE WriteEntities(_, _, _)
WriteEntities(w, list, kind) ==
  IF ~w.ok \/ list = <<>> THEN w
  ELSE LET ent == Head(list)
           ops == CASE kind = "uart" -> UartOps(ent)
                    [] kind = "i2c" -> I2cOps(ent)
                    [] kind = "timer" -> TimerOps(ent)
       IN WriteEntities(IF Enabled(ent) THEN WriteOps(w, ops) ELSE w, Tail(list), kind)

\* the aggregator calling every entity of the list
IsCalled_all(ent) == TRUE

\* whether the aggregator calls the entity's initializer
IsCalled(ent) == Enabled(ent)

\* one loop of the aggregator: f"    init_{ent['instance']}();\n" for the called ones
RECURSIVE WriteCalls(_, _)
WriteCalls(w, list) ==
  IF ~w.ok \/ list = <<>> THEN w
  ELSE LET ent == Head(list)
           op == IF Has(ent, "instance")
                 THEN W("    init_" \o Fmt(ent["instance"]) \o "();\n") ELSE Raises
       IN WriteCalls(IF IsCalled(ent) THEN WriteOps(w, <<op>>) ELSE w, Tail(list))

\* the body of `with open(output, "w") as f` in generate_c_file
generate_c_file(c) ==
  LET board_name == GetOr(BoardOf(c), "name", StrV("unknown_board"))
      w0 == WriteOps([ok |-> TRUE, lines |-> <<>>],
                     <<W("/* auto-generated for " \o Fmt(board_name) \o " */\n"),
                       W("#include \"stm32f4xx_hal.h\"\n\n")>>)
      w1 == write_gpio_c(w0, c)
      w2 == WriteEntities(w1, UartsOf(c), "uart")
      w3 == WriteEntities(w2, I2csOf(c), "i2c")
      w4 == WriteEntities(w3, TimersOf(c), "timer")
      w5 == WriteOps(w4, <<W("void initialize_peripherals(void) {\n"),
                           W("    init_gpio();\n")>>)
      w6 == WriteCalls(w5, UartsOf(c))
      w7 == WriteCalls(w6, I2csOf(c))
      w8 == WriteCalls(w7, TimersOf(c))
  IN WriteOps(w8, <<W("}\n")>>)

\* print_summary raises (KeyError, or TypeError from a format spec on None)
\* instead of reaching sys.exit(0)
summary_raises(c) ==
  \/ \E i \in DOMAIN PinsOf(c) :
       \E k \in {"pin", "direction", "pull"} : PinsOf(c)[i][k] = Null
  \/ \E i \in DOMAIN UartsOf(c) :
       \E k \in {"enabled", "instance", "baudrate", "tx_pin", "rx_pin"} :
         ~Has(UartsOf(c)[i], k)
  \/ \E i \in DOMAIN I2csOf(c) :
       \E k \in {"enabled", "instance", "speed", "scl_pin", "sda_pin"} :
         ~Has(I2csOf(c)[i], k)
  \/ \E i \in DOMAIN TimersOf(c) :
       \E k \in {"enabled", "instance", "mode", "prescaler", "period"} :
         ~Has(TimersOf(c)[i], k)

(***************************************************************************)
(* Bounds and the configuration trees the runs start from                  *)
(***************************************************************************)
MaxPins == 2        \* pins per list, pins varying in every field
MaxDupPins == 3     \* pins per list, pins varying in their identifier
MaxUarts == 1       \* uart entities per list, varying in every field
MaxI2cs == 1        \* i2c entities per list, varying in every field
MaxTimers == 1      \* timers per list, varying in every field
MaxMixed == 2       \* entities per list where several sections vary together
MaxCalls == 2       \* successive calls of _apply_defaults

SeqsUpTo(S, n) == UNION {[1..k -> S] : k \in 0..n}

AllKeys == {"board", "gpio", "communication", "timers"}

PinE(pin, direction, pull, speed, alt_function, comment) ==
  [pin |-> pin, direction |-> direction, pull |-> pull, speed |-> speed,
   alt_function |-> alt_function, comment |-> comment]

UartE(instance, enabled, baudrate, parity, pins) ==
  [instance |-> instance, enabled |-> enabled, baudrate |-> baudrate,
   parity |-> parity, stop_bits |-> Absent, data_bits |-> Absent,
   tx_pin |-> pins, rx_pin |-> pins]

I2cE(instance, enabled, speed, pins) ==
  [instance |-> instance, enabled |-> enabled, speed |-> speed,
   scl_pin |-> pins, sda_pin |-> pins]

TimerE(instance, enabled, mode, prescaler, period, duty_cycle, channel) ==
  [instance |-> instance, enabled |-> enabled, mode |-> mode,
   prescaler |-> prescaler, period |-> period, duty_cycle |-> duty_cycle,
   channel |-> channel]

\* a tree; a section left out of keys holds nothing
Tree(keys, board, pinsKey, pins, commKeys, uart, i2c, timers) ==
  [keys |-> keys,
   board |-> IF "board" \in keys THEN board ELSE EmptyBoard,
   gpio |-> IF "gpio" \in keys /\ pinsKey
            THEN [keys |-> {"pins"}, pins |-> pins] ELSE EmptyGpio,
   communication |->
     IF "communication" \in keys
     THEN [keys |-> commKeys,
           uart |-> IF "uart" \in commKeys THEN uart ELSE <<>>,
           i2c |-> IF "i2c" \in commKeys THEN i2c ELSE <<>>]
     ELSE EmptyComm,
   timers |-> IF "timers" \in keys THEN timers ELSE <<>>]

GoodBoard == [name |-> StrV("nucleo"), mcu |-> StrV("STM32F401"),
              clock_freq |-> IntV(16000000)]
GoodPin == PinE(StrV("PA5"), StrV("output"), Absent, Absent, Absent, Absent)
GoodUart == UartE(StrV("USART2"), Absent, IntV(115200), Absent, StrV("PA2"))
GoodI2c == I2cE(StrV("I2C1"), Absent, Absent, StrV("PB8"))
GoodTimer == TimerE(StrV("TIM2"), Absent, Absent, IntV(84), IntV(1000), Absent, Absent)
BothKeys == {"uart", "i2c"}

Boards ==
  [name : {Absent, Null, StrV("nucleo")}, mcu : {Absent, Null, StrV("STM32F401")},
   clock_freq : {Absent, Null, IntV(16000000)}]

BoardTrees ==
  {Tree(AllKeys, b, TRUE, <<GoodPin>>, BothKeys, <<GoodUart>>, <<GoodI2c>>, <<GoodTimer>>) :
     b \in Boards}
  \cup {Tree(AllKeys \ {"board"}, EmptyBoard, TRUE, <<GoodPin>>, BothKeys, <<GoodUart>>,
             <<GoodI2c>>, <<GoodTimer>>)}

\* direction, pull, speed, alt_function, comment of a pin
PinProfiles ==
  { <<Absent, Absent, Absent, Absent, Absent>>,
    <<StrV("output"), StrV("none"), StrV("medium"), Absent, StrV("led")>>,
    <<StrV("output_open_drain"), StrV("pull_up"), StrV("very_high"), Absent, Absent>>,
    <<StrV("sideways"), Absent, Absent, Absent, Absent>>,
    <<Absent, StrV("up"), Absent, Absent, Absent>>,
    <<Absent, Absent, Null, Absent, Absent>>,
    <<Null, Absent, Absent, StrV("GPIO_AF7_USART2"), Absent>>,
    <<Absent, Absent, Absent, IntV(7), Absent>> }

RichPins ==
  {PinE(id, p[1], p[2], p[3], p[4], p[5]) :
     id \in {Absent, StrV("P"), StrV("PA5"), StrV("PB12")}, p \in PinProfiles}

IdPins ==
  {PinE(id, dir, Absent, Absent, Absent, Absent) :
     id \in {Absent, StrV(""), StrV("PA5"), StrV("PB12")},
     dir \in {Absent, StrV("sideways")}}

GpioTree(pinsKey, pins) ==
  Tree(AllKeys, GoodBoard, pinsKey, pins, BothKeys, <<GoodUart>>, <<GoodI2c>>, <<GoodTimer>>)

\* trees whose pin list has up to n pins
GpioTrees(n) ==
  {GpioTree(TRUE, l) : l \in SeqsUpTo(RichPins, n)} \cup {GpioTree(FALSE, <<>>)}

DupTrees(n) == {GpioTree(TRUE, l) : l \in SeqsUpTo(IdPins, n)}

Enableds == {Absent, Null, BoolV(FALSE), StrV("yes")}

RichUarts ==
  {UartE(inst, en, baud, Absent, StrV("PA2")) :
     inst \in {Absent, StrV("USART2")}, en \in Enableds,
     baud \in {Absent, Null, IntV(115200), IntV(0), BoolV(TRUE), StrV("9600")}}
  \cup
  {UartE(StrV("USART2"), en, IntV(115200), par, StrV("PA2")) :
     en \in {Absent, BoolV(FALSE)}, par \in {StrV("odd"), StrV("mark"), Null}}

RichI2cs ==
  {I2cE(inst, en, speed, StrV("PB8")) :
     inst \in {Absent, StrV("I2C1")}, en \in {Absent, BoolV(FALSE), StrV("yes")},
     speed \in {Absent, Null, IntV(400000), IntV(0), BoolV(TRUE), StrV("fast")}}

RichTimers ==
  {TimerE(StrV("TIM3"), en, mode, IntV(84), IntV(1000), duty, ch) :
     en \in {Absent, BoolV(FALSE), StrV("yes")},
     mode \in {Absent, StrV("pwm"), StrV("oneshot")},
     duty \in {Absent, IntV(50)}, ch \in {Absent, IntV(1)}}
  \cup
  {TimerE(inst, en, mode, psc, per, Absent, Absent) :
     inst \in {Absent, StrV("TIM3")}, en \in {Absent, BoolV(FALSE)},
     mode \in {Absent, StrV("pwm")}, psc \in {Absent, IntV(0)},
     per \in {Absent, StrV("1000")}}

\* entities with names of their own
BadPin == PinE(StrV("PB12"), StrV("sideways"), Absent, Absent, Absent, Absent)
NoIdPin == PinE(Absent, Absent, Absent, Absent, Absent, Absent)
ShortPin == PinE(StrV("P"), Absent, Absent, Absent, Absent, StrV("x"))
BadUart == UartE(StrV("USART3"), Absent, Absent, Absent, Absent)
OffUart == UartE(StrV("USART6"), BoolV(FALSE), Absent, Absent, Absent)
Uart1 == UartE(StrV("USART1"), BoolV(TRUE), IntV(9600), StrV("even"), StrV("PA9"))
BadI2c == I2cE(Absent, StrV("yes"), IntV(0), Absent)
OffI2c == I2cE(StrV("I2C3"), BoolV(FALSE), Absent, StrV("PA8"))
I2c2 == I2cE(StrV("I2C2"), Absent, IntV(400000), StrV("PB10"))
BadTimer == TimerE(StrV("TIM4"), Absent, StrV("pwm"), IntV(0), Absent, IntV(50), Absent)
OffTimer == TimerE(StrV("TIM5"), BoolV(FALSE), StrV("pwm"), Absent, Absent, Absent, Absent)
PwmTimer == TimerE(StrV("TIM1"), Absent, StrV("pwm"), IntV(84), IntV(1000), IntV(50), IntV(1))

CommTree(commKeys, uart, i2c) ==
  Tree(AllKeys, GoodBoard, TRUE, <<GoodPin>>, commKeys, uart, i2c, <<GoodTimer>>)

\* trees in which one of the uart, i2c and timer lists varies, with up to
\* nu, ni and nt entities
PeriphTrees(nu, ni, nt) ==
  {CommTree(BothKeys, l, <<GoodI2c>>) : l \in SeqsUpTo(RichUarts, nu)}
  \cup {CommTree(BothKeys, <<GoodUart>>, l) : l \in SeqsUpTo(RichI2cs, ni)}
  \cup {CommTree(k, <<GoodUart>>, <<GoodI2c>>) : k \in SUBSET BothKeys}
  \cup {Tree(AllKeys, GoodBoard, TRUE, <<GoodPin>>, BothKeys, <<GoodUart>>, <<GoodI2c>>, l) :
          l \in SeqsUpTo(RichTimers, nt)}
  \cup {Tree(AllKeys, GoodBoard, TRUE, <<GoodPin>>, BothKeys, <<OffUart>>, <<OffI2c>>,
               <<OffTimer>>)}

\* trees in which sections are missing and several sections hold bad entities
StructureTrees ==
  {Tree(keys, b, TRUE, pins, BothKeys, uart, <<GoodI2c>>, timers) :
     keys \in SUBSET AllKeys,
     b \in {GoodBoard, [GoodBoard EXCEPT !.mcu = Absent]},
     pins \in {<<GoodPin>>, <<NoIdPin, BadPin>>},
     uart \in {<<GoodUart>>, <<BadUart>>},
     timers \in {<<>>, <<BadTimer>>}}

OrderTree(pinsKey, pins, uart, i2c, timers) ==
  Tree(AllKeys, GoodBoard, pinsKey, pins, BothKeys, uart, i2c, timers)

\* trees in which one list varies in order and length, up to n entities
OrderTrees(n) ==
  {OrderTree(TRUE, l, <<Uart1, OffUart>>, <<OffI2c, I2c2>>, <<PwmTimer>>) :
     l \in SeqsUpTo({GoodPin, BadPin, NoIdPin, ShortPin}, n)}
  \cup {OrderTree(TRUE, <<GoodPin>>, l, <<OffI2c, I2c2>>, <<PwmTimer>>) :
          l \in SeqsUpTo({GoodUart, Uart1, OffUart, BadUart}, n)}
  \cup {OrderTree(TRUE, <<GoodPin>>, <<Uart1, OffUart>>, l, <<PwmTimer>>) :
          l \in SeqsUpTo({GoodI2c, I2c2, OffI2c, BadI2c}, n)}
  \cup {OrderTree(TRUE, <<GoodPin>>, <<Uart1, OffUart>>, <<OffI2c, I2c2>>, l) :
          l \in SeqsUpTo({GoodTimer, PwmTimer, OffTimer, BadTimer}, n)}
  \cup {OrderTree(FALSE, <<>>, <<Uart1>>, <<I2c2>>, <<PwmTimer>>)}

MixedTrees(n) == StructureTrees \cup OrderTrees(n)

(***************************************************************************)
(* The run: gen = configparser(path); gen.load_and_validate(); then one of *)
(* print_summary, the validate-only exit, generate_c_file                  *)
(***************************************************************************)
NoFile == [exists |-> FALSE, lines |-> <<>>]

\* the state after yaml.safe_load has filled self.config
Loaded(trees) ==
  /\ config \in trees
  /\ errors = <<>>
  /\ diag = <<>>
  /\ pc = "defaults"
  /\ reported = <<>>
  /\ file = NoFile
  /\ exitCode = -1
  /\ calls = 0

Init == Loaded(MixedTrees(MaxMixed))
InitBoard == Loaded(BoardTrees)
InitDup == Loaded(DupTrees(MaxDupPins))
InitPeriph == Loaded(PeriphTrees(MaxUarts, MaxI2cs, MaxTimers))
InitDefaults == Loaded(MixedTrees(MaxMixed) \cup GpioTrees(MaxPins))

\* the gpio validator called before the board validator
ValidatorOrder_swapped == <<"structure", "gpio", "board", "communication", "timers">>

\* the order of the validator calls in load_and_validate
ValidatorOrder == <<"structure", "board", "gpio", "communication", "timers">>

\* the position after the validator at position p
After(p) ==
  LET i == CHOOSE i \in DOMAIN ValidatorOrder : ValidatorOrder[i] = p
  IN IF i = Len(ValidatorOrder) THEN "check" ELSE ValidatorOrder[i + 1]

\* a call of self._apply_defaults()
CallApplyDefaults ==
  LET r == apply_defaults(config)
  IN /\ config' = r.config
     /\ diag' = diag \o r.out
     /\ calls' = calls + 1

ApplyDefaults ==
  /\ pc = "defaults"
  /\ CallApplyDefaults
  /\ pc' = ValidatorOrder[1]
  /\ UNCHANGED <<errors, reported, file, exitCode>>

ValidateStructure ==
  /\ pc = "structure"
  /\ errors' = validate_structure(config, errors)
  /\ pc' = After("structure")
  /\ UNCHANGED <<config, diag, reported, file, exitCode, calls>>

ValidateBoard ==
  /\ pc = "board"
  /\ errors' = validate_board_section(config, errors)
  /\ pc' = After("board")
  /\ UNCHANGED <<config, diag, reported, file, exitCode, calls>>

ValidateGpio ==
  /\ pc = "gpio"
  /\ errors' = validate_gpio_section(config, errors)
  /\ pc' = After("gpio")
  /\ UNCHANGED <<config, diag, reported, file, exitCode, calls>>

ValidateCommunication ==
  /\ pc = "communication"
  /\ errors' = validate_communication_section(config, errors)
  /\ pc' = After("communication")
  /\ UNCHANGED <<config, diag, reported, file, exitCode, calls>>

ValidateTimers ==
  /\ pc = "timers"
  /\ errors' = validate_timers_section(config, errors)
  /\ pc' = After("timers")
  /\ UNCHANGED <<config, diag, reported, file, exitCode, calls>>

\* `if self.errors:` print them all, sys.exit(1)
ReportErrors ==
  /\ pc = "check"
  /\ errors # <<>>
  /\ reported' = errors
  /\ exitCode' = 1
  /\ pc' = "exit_errors"
  /\ UNCHANGED <<config, errors, diag, file, calls>>

\* load_and_validate returns True
Accept ==
  /\ pc = "check"
  /\ errors = <<>>
  /\ pc' = "validated"
  /\ UNCHANGED <<config, errors, diag, reported, file, exitCode, calls>>

\* the command line flags
Args == [summary : BOOLEAN, validate_only : BOOLEAN]

\* `if args.summary:` print_summary, sys.exit(0)
PrintSummary ==
  /\ pc = "validated"
  /\ \E args \in Args : args.summary
  /\ exitCode' = IF summary_raises(config) THEN 1 ELSE 0
  /\ pc' = "exit_summary"
  /\ UNCHANGED <<config, errors, diag, reported, file, calls>>

\* `if args.validate_only:` sys.exit(0)
ValidateOnly ==
  /\ pc = "validated"
  /\ \E args \in Args : ~args.summary /\ args.validate_only
  /\ exitCode' = 0
  /\ pc' = "exit_validate_only"
  /\ UNCHANGED <<config, errors, diag, reported, file, calls>>

\* gen.generate_c_file(args.output): open() creates the file, the with block
\* closes it with what was written, also when the body raises
GenerateCFile ==
  /\ pc = "validated"
  /\ \E args \in Args : ~args.summary /\ ~args.validate_only
  /\ LET w == generate_c_file(config)
     IN /\ file' = [exists |-> TRUE, lines |-> w.lines]
        /\ exitCode' = IF w.ok THEN 0 ELSE 1
  /\ pc' = "end"
  /\ UNCHANGED <<config, errors, diag, reported, calls>>

Next ==
  \/ ApplyDefaults
  \/ ValidateStructure
  \/ ValidateBoard
  \/ ValidateGpio
  \/ ValidateCommunication
  \/ ValidateTimers
  \/ ReportErrors
  \/ Accept
  \/ PrintSummary
  \/ ValidateOnly
  \/ GenerateCFile

Spec == Init /\ [][Next]_vars
SpecBoard == InitBoard /\ [][Next]_vars
SpecDup == InitDup /\ [][Next]_vars
SpecPeriph == InitPeriph /\ [][Next]_vars

\* _apply_defaults called again and again on the same object
ApplyDefaultsAgain ==
  /\ calls < MaxCalls
  /\ CallApplyDefaults
  /\ UNCHANGED <<errors, pc, reported, file, exitCode>>

NextDefaults == ApplyDefaultsAgain

SpecDefaults == InitDefaults /\ [][NextDefaults]_vars

(***************************************************************************)
(* Properties                                                              *)
(***************************************************************************)
Count(seq, x) == Cardinality({i \in DOMAIN seq : seq[i] = x})

IsPrefix(a, b) == Len(a) <= Len(b) /\ SubSeq(b, 1, Len(a)) = a

\* the concatenation of a sequence of sequences
RECURSIVE ConcatAll(_)
ConcatAll(ss) == IF ss = <<>> THEN <<>> ELSE Head(ss) \o ConcatAll(Tail(ss))

OneIf(cond, msg) == IF cond THEN <<msg>> ELSE <<>>

\* the run has gone past the validator at position p
Past(p) ==
  LET rank == [q \in {"defaults", "structure", "board", "gpio", "communication",
                      "timers"} |->
                 CASE q = "defaults" -> 0 [] q = "structure" -> 1 [] q = "board" -> 2
                   [] q = "gpio" -> 3 [] q = "communication" -> 4 [] q = "timers" -> 5]
  IN pc \notin DOMAIN rank \/ rank[pc] > rank[p]

EntryLine == "void initialize_peripherals(void) {\n"

\* banner, include, the gpio section, the closed per-category sections and the
\* complete entry point
FullArtifact(lines) ==
  /\ Len(lines) >= 7
  /\ SubSeq(lines[1], 1, 22) = "/* auto-generated for "
  /\ lines[2] = "#include \"stm32f4xx_hal.h\"\n\n"
  /\ lines[3] = "static void init_gpio(void) {\n"
  /\ lines[Len(lines)] = "}\n"
  /\ \E e \in 5..(Len(lines) - 2) :
       /\ lines[e] = EntryLine
       /\ lines[e - 1] = "}\n\n"
       /\ lines[e + 1] = "    init_gpio();\n"

\* C1: the output file is either not created at all or holds the full
\* artifact; no run leaves a file that holds only a prefix of it.
C1_AllOrNothing == file.exists => FullArtifact(file.lines)

\* C2: in every accepted configuration every enum-valued field of every
\* entity is a member of its enum set (direction, pull, speed of a pin,
\* parity of a uart, mode of a timer).
C2_EnumsValid ==
  pc = "validated" =>
    /\ \A i \in DOMAIN PinsOf(config) :
         /\ InStrSet(PinsOf(config)[i].direction, {"input", "output", "output_open_drain"})
         /\ InStrSet(PinsOf(config)[i].pull, {"none", "pull_up", "pull_down"})
         /\ InStrSet(PinsOf(config)[i].speed, {"low", "medium", "high", "very_high"})
    /\ \A i \in DOMAIN UartsOf(config) :
         InStrSet(UartsOf(config)[i].parity, {"none", "even", "odd"})
    /\ \A i \in DOMAIN TimersOf(config) :
         InStrSet(TimersOf(config)[i].mode, {"timer", "pwm"})

\* C3: once the board validator has run, the error list holds exactly one
\* "board <field> required" for each of name, mcu, clock_freq that is absent
\* or null and none for a field that is present and non-null; a board with a
\* null field is never accepted.
C3_BoardRequired ==
  /\ Past("board") =>
       \A f \in {"name", "mcu", "clock_freq"} :
         Count(errors, "board " \o f \o " required")
           = IF BoardOf(config)[f] \in {Absent, Null} THEN 1 ELSE 0
  /\ pc = "validated" =>
       \A f \in {"name", "mcu", "clock_freq"} : BoardOf(config)[f] \notin {Absent, Null}

PwmMsg(t) == Fmt(Get(t, "instance")) \o " pwm needs duty_cycle and channel"

PwmNames == {Fmt(Get(TimersOf(config)[i], "instance")) : i \in DOMAIN TimersOf(config)}

\* C4 as stated: once the timer validator has run, every timer whose mode is
\* "pwm", whatever its enabled value, has exactly one combined error if
\* duty_cycle or channel is absent and none if both are present.
C4_PwmWhateverEnabled ==
  Past("timers") =>
    \A n \in PwmNames :
      Count(errors, n \o " pwm needs duty_cycle and channel")
        = Cardinality({i \in DOMAIN TimersOf(config) :
            LET t == TimersOf(config)[i]
            IN /\ Fmt(Get(t, "instance")) = n
               /\ t.mode = StrV("pwm")
               /\ (t.duty_cycle = Absent \/ t.channel = Absent)})

\* C4 amended: once the timer validator has run, every timer whose mode is
\* "pwm" and whose enabled value is truthy has exactly one combined error if
\* duty_cycle or channel is absent and none if both are present; a pwm timer
\* whose enabled value is false or otherwise falsy has none.
C4_PwmWhenEnabled ==
  Past("timers") =>
    \A n \in PwmNames :
      Count(errors, n \o " pwm needs duty_cycle and channel")
        = Cardinality({i \in DOMAIN TimersOf(config) :
            LET t == TimersOf(config)[i]
            IN /\ Fmt(Get(t, "instance")) = n
               /\ t.mode = StrV("pwm")
               /\ Truthy(Get(t, "enabled"))
               /\ (t.duty_cycle = Absent \/ t.channel = Absent)})

\* an enabled pwm timer that lacks only duty_cycle got its one error, and a
\* run with a disabled pwm timer lacking both got none
C4_Witness ==
  /\ Past("timers")
  /\ \E i \in DOMAIN TimersOf(config) :
       LET t == TimersOf(config)[i]
       IN /\ t.mode = StrV("pwm") /\ t.enabled = BoolV(TRUE)
          /\ t.duty_cycle = Absent /\ t.channel # Absent
          /\ Count(errors, PwmMsg(t)) = 1

\* the messages the gpio validator owes to the pin at position i (from 1)
ExpectedPinMsgs(pins, i) ==
  LET id == pins[i].pin
  IN IF id \in {Absent, Null, StrV("")}
     THEN <<"gpio " \o ToString(i - 1) \o " missing pin">>
     ELSE OneIf(\E j \in 1..(i - 1) : pins[j].pin = id, "duplicate pin " \o id.s)
          \o OneIf(~InStrSet(pins[i].direction, valid_directions),
                   id.s \o " direction must be one of valid_directions")
          \o OneIf(~InStrSet(pins[i].pull, valid_pulls),
                   id.s \o " pull must be one of valid_pulls")
          \o OneIf(~InStrSet(pins[i].speed, valid_speeds),
                   id.s \o " speed must be one of valid_speeds")
          \o OneIf(pins[i].alt_function \notin {Absent, Null}
                   /\ pins[i].alt_function.t # "str",
                   id.s \o " alt_function must be a string (STM32 macro)")

ExpectedGpioMsgs(pins) ==
  ConcatAll([i \in DOMAIN pins |-> ExpectedPinMsgs(pins, i)])

PinIdsOf(pins) == {pins[i].pin.s : i \in {j \in DOMAIN pins : pins[j].pin.t = "str"}} \ {""}

\* C5: when the gpio validator returns, the messages it appended are, pin by
\* pin in list order, those of each pin, with a "duplicate pin <id>" for a
\* pin exactly when an earlier pin has the same non-empty identifier; so k
\* pins sharing an identifier give k-1 duplicate errors and the first
\* occurrence is never flagged.
C5_DuplicatePins ==
  Past("gpio") =>
    LET pins == PinsOf(config)
        exp == ExpectedGpioMsgs(pins)
    IN /\ \A n \in PinIdsOf(pins) :
            Count(errors, "duplicate pin " \o n)
              = Cardinality({i \in DOMAIN pins : pins[i].pin = StrV(n)}) - 1
       /\ pc = "communication" =>
            /\ Len(errors) >= Len(exp)
            /\ SubSeq(errors, Len(errors) - Len(exp) + 1, Len(errors)) = exp

\* three pins share an identifier and two duplicate errors were appended
C5_Witness ==
  /\ pc = "communication"
  /\ Len(PinsOf(config)) = 3
  /\ \A i \in 1..3 : PinsOf(config)[i].pin = StrV("PA5")
  /\ Count(errors, "duplicate pin PA5") = 2

\* a disabled entity that has an instance name
Exempt(ent) == ent.enabled = BoolV(FALSE) /\ Truthy(Get(ent, "instance"))
NotExempt(ent) == ~Exempt(ent)

\* the tree without its exempt uart, i2c and timer entities
WithoutExempt(c) ==
  [c EXCEPT !.communication.uart = SelectSeq(@, NotExempt),
            !.communication.i2c = SelectSeq(@, NotExempt),
            !.timers = SelectSeq(@, NotExempt)]

\* the five validators run on a tree, from an empty error list
AllErrors(c) ==
  validate_timers_section(c,
    validate_communication_section(c,
      validate_gpio_section(c,
        validate_board_section(c, validate_structure(c, <<>>)))))

\* C6: a uart, i2c or timer entity with enabled = false and an instance name
\* contributes no error whatever required-when-enabled fields it omits: the
\* error list after the validators is the one of the tree without these
\* entities, and is empty of uart, i2c and timer messages when every such
\* entity is exempt.
C6_DisabledExempt ==
  pc = "check" =>
    /\ errors = AllErrors(WithoutExempt(config))
    /\ ( /\ \A i \in DOMAIN UartsOf(config) : Exempt(UartsOf(config)[i])
         /\ \A i \in DOMAIN I2csOf(config) : Exempt(I2csOf(config)[i])
         /\ \A i \in DOMAIN TimersOf(config) : Exempt(TimersOf(config)[i])
         => errors = validate_gpio_section(config,
                       validate_board_section(config, validate_structure(config, <<>>))) )

\* a disabled uart without baudrate and a disabled pwm timer without
\* prescaler, period, duty_cycle and channel were validated without error
C6_Witness ==
  /\ pc = "check"
  /\ errors = <<>>
  /\ \E i \in DOMAIN UartsOf(config) :
       Exempt(UartsOf(config)[i]) /\ UartsOf(config)[i].baudrate = Absent
  /\ \E i \in DOMAIN I2csOf(config) : Exempt(I2csOf(config)[i])
  /\ \E i \in DOMAIN TimersOf(config) :
       LET t == TimersOf(config)[i]
       IN /\ Exempt(t) /\ t.mode = StrV("pwm")
          /\ t.prescaler = Absent /\ t.period = Absent
          /\ t.duty_cycle = Absent /\ t.channel = Absent

\* the default of a field in a category's table, Absent when it has none
DefaultOf(cat, key) ==
  LET hits == {i \in DOMAIN defaults(cat) : defaults(cat)[i][1] = key}
  IN IF hits = {} THEN Absent ELSE defaults(cat)[CHOOSE i \in hits : TRUE][2]

\* list `after` is list `before` with exactly the gaps of each entity filled
GapsFilled(before, after, cat) ==
  /\ Len(after) = Len(before)
  /\ \A i \in DOMAIN before :
       \A k \in DOMAIN before[i] :
         after[i][k] = IF before[i][k] # Absent THEN before[i][k] ELSE DefaultOf(cat, k)

\* C7: a call of _apply_defaults leaves every present field (null and
\* invalid values included) as it is and sets every absent field of the
\* category's defaults table to its default; a second call changes no field
\* and prints no line.
C7_DefaultsIdempotent ==
  [][ /\ GapsFilled(PinsOf(config), PinsOf(config'), "gpio")
      /\ GapsFilled(UartsOf(config), UartsOf(config'), "uart")
      /\ GapsFilled(I2csOf(config), I2csOf(config'), "i2c")
      /\ GapsFilled(TimersOf(config), TimersOf(config'), "timers")
      /\ config'.keys = config.keys /\ config'.board = config.board
      /\ config'.gpio.keys = config.gpio.keys
      /\ config'.communication.keys = config.communication.keys
      /\ (calls >= 1 => config' = config /\ diag' = diag) ]_vars

\* a second call was made on a tree whose first call filled gaps next to a
\* field that was present with a null value
C7_Witness ==
  /\ calls = 2
  /\ diag # <<>>
  /\ \E i \in DOMAIN PinsOf(config) :
       PinsOf(config)[i].speed = Null /\ PinsOf(config)[i].pull = StrV("none")

\* what each validator owes for a tree, validator by validator and entity by
\* entity, each started from an empty list
ExpectedReport(c) ==
  ConcatAll([i \in DOMAIN Sections |->
               OneIf(Sections[i] \notin c.keys, "missing section " \o Sections[i])])
  \o ConcatAll([i \in DOMAIN BoardFields |->
                  OneIf(BoardOf(c)[BoardFields[i]] = Absent,
                        "board " \o BoardFields[i] \o " required")])
  \o ExpectedGpioMsgs(PinsOf(c))
  \o ConcatAll([i \in DOMAIN UartsOf(c) |->
                  CommChecks(UartsOf(c)[i], "uart", "baudrate", <<>>)])
  \o ConcatAll([i \in DOMAIN I2csOf(c) |-> CommChecks(I2csOf(c)[i], "i2c", "speed", <<>>)])
  \o ConcatAll([i \in DOMAIN TimersOf(c) |-> TimerChecks(TimersOf(c)[i], <<>>)])

\* C8: the error list only grows by appending; the list printed before the
\* single exit with code 1 is the whole list, which is the concatenation of
\* the five validators' messages in the order structure, board, gpio,
\* communication, timers with entities in list order, whatever earlier
\* validators or entities appended and whichever sections are missing; a
\* tree is accepted only when no validator owes a message.
C8_ErrorsAccumulated ==
  /\ [](pc = "exit_errors" =>
          /\ reported = errors
          /\ errors = ExpectedReport(config)
          /\ exitCode = 1
          /\ ~file.exists)
  /\ [](pc = "check" => errors = ExpectedReport(config))
  /\ [](exitCode = 1 /\ reported # <<>> => pc = "exit_errors")
  /\ [][IsPrefix(errors, errors')]_vars

\* the report holds messages of the structure, board, gpio and timer
\* validators of a tree with a missing section, two of them for the gpio list
C8_Witness ==
  /\ pc = "exit_errors"
  /\ "communication" \notin config.keys
  /\ \E a, b, c, d, e \in DOMAIN reported :
       /\ a < b /\ b < c /\ c < d /\ d < e
       /\ reported[a] = "missing section communication"
       /\ reported[b] = "board mcu required"
       /\ reported[c] = "gpio 0 missing pin"
       /\ reported[d] = "PB12 direction must be one of valid_directions"
       /\ reported[e] = "TIM4 invalid prescaler"

\* the calls the entry point owes to a list: the enabled entities, in order
ExpectedCalls(list) ==
  ConcatAll([i \in DOMAIN list |->
               OneIf(list[i].enabled = BoolV(TRUE),
                     "    init_" \o Fmt(list[i].instance) \o "();\n")])

EntryAt(lines) == CHOOSE e \in DOMAIN lines : lines[e] = EntryLine

\* C9: in an artifact that holds the entry point, the entry point calls
\* init_gpio first, then init_<instance> for exactly the enabled uarts, then
\* the enabled i2cs, then the enabled timers, each in list order; and every
\* function it calls is defined earlier in the artifact.
C9_EntryPointCalls ==
  (file.exists /\ \E e \in DOMAIN file.lines : file.lines[e] = EntryLine) =>
    LET lines == file.lines
        e == EntryAt(lines)
        called == UartsOf(config) \o I2csOf(config) \o TimersOf(config)
    IN /\ SubSeq(lines, e + 1, Len(lines))
            = <<"    init_gpio();\n">> \o ExpectedCalls(UartsOf(config))
              \o ExpectedCalls(I2csOf(config)) \o ExpectedCalls(TimersOf(config))
              \o <<"}\n">>
       /\ \E d \in 1..(e - 1) : lines[d] = "static void init_gpio(void) {\n"
       /\ \A k \in (e + 2)..(Len(lines) - 1) :
            \E i \in DOMAIN called :
              /\ lines[k] = "    init_" \o Fmt(called[i].instance) \o "();\n"
              /\ \E d \in 1..(e - 1) :
                   lines[d] = "void init_" \o Fmt(called[i].instance) \o "(void) {\n"

\* an artifact whose entry point calls two uarts in list order and skips a
\* disabled i2c
C9_Witness ==
  /\ file.exists
  /\ Len(UartsOf(config)) = 2
  /\ UartsOf(config)[1].instance = StrV("USART2")
  /\ UartsOf(config)[2].instance = StrV("USART1")
  /\ \E e \in DOMAIN file.lines :
       /\ file.lines[e] = EntryLine
       /\ SubSeq(file.lines, e + 1, Len(file.lines))
            = <<"    init_gpio();\n", "    init_USART2();\n", "    init_USART1();\n",
                "    init_I2C2();\n", "    init_TIM1();\n", "}\n">>
  /\ \E i \in DOMAIN I2csOf(config) : I2csOf(config)[i].enabled = BoolV(FALSE)

\* baudrate / speed is an integer-typed value strictly greater than zero
PositiveInteger(v) == v.t = "int" /\ v.n > 0

\* C10: once the communication validator has run, every uart with enabled
\* true has an "invalid baudrate" error naming it (or `uart`) if and only if
\* its baudrate is not an integer-typed value greater than zero (absent, null,
\* boolean and string included); the same for every enabled i2c and speed.
C10_InvalidBaudrate ==
  Past("communication") =>
    /\ \A i \in DOMAIN UartsOf(config) :
         LET u == UartsOf(config)[i]
             who == IF Truthy(Get(u, "instance")) THEN Fmt(u.instance) ELSE "uart"
         IN u.enabled = BoolV(TRUE) =>
              ((Count(errors, who \o " invalid baudrate") > 0)
                 <=> ~PositiveInteger(u.baudrate))
    /\ \A i \in DOMAIN I2csOf(config) :
         LET u == I2csOf(config)[i]
             who == IF Truthy(Get(u, "instance")) THEN Fmt(u.instance) ELSE "i2c"
         IN u.enabled = BoolV(TRUE) =>
              ((Count(errors, who \o " invalid speed") > 0) <=> ~PositiveInteger(u.speed))

====
